---- MODULE Spec2Model ----
(***************************************************************************)
(* Model of the e-commerce sales analysis scripts (src/modularcode.py).    *)
(*                                                                         *)
(* Script 1 (main): connect to database.db, create_tables, load five csv   *)
(* files with load_csv_to_table, run the basic, intermediate and advanced  *)
(* query tiers, close.  database.db outlives a run, so a later run starts  *)
(* from the store the earlier run left.                                    *)
(* Script 2: process_csv, the loader for the MySQL database.               *)
(*                                                                         *)
(* A cell is an integer; text is coded as an integer.  A column name is a  *)
(* sequence of symbols: a symbol is one separator character or a run of    *)
(* characters that holds none.  A date is coded yyyymmdd.  An amount that  *)
(* is REAL is the integer it equals; a quotient is kept as num/den.        *)
(***************************************************************************)
EXTENDS Integers, Sequences, FiniteSets, TLC

VARIABLES pc, i, run, conn, opens, log, fs, store, mysql, out, attempts, snapshot

vars == <<pc, i, run, conn, opens, log, fs, store, mysql, out, attempts, snapshot>>

(* ------------------------------ bounds -------------------------------- *)
(* runs of script 1 against one database.db *)
MaxRuns == 2
(* rows of a csv file of script 1 *)
MaxId == 2
(* columns and rows of the sales.csv the two loaders are run on *)
MaxCols == 2
MaxRows == 1
(* rows of orders.csv under the yearly queries *)
MaxOrders == 4
(* rows of orders.csv, products.csv and order_products.csv under the join *)
MaxLinks == 2

(* ------------------------------ values -------------------------------- *)
NULL == -1
NaN == -2
TopN == 3

RECURSIVE SumSeq(_)
SumSeq(s) == IF s = <<>> THEN 0 ELSE Head(s) + SumSeq(Tail(s))

RECURSIVE SetToSeq(_)
SetToSeq(S) == IF S = {} THEN <<>>
               ELSE LET x == CHOOSE y \in S : TRUE IN <<x>> \o SetToSeq(S \ {x})

SeqsUpTo(S, n) == UNION {[1..k -> S] : k \in 0..n}

(* column names *)
customer_id == <<"customer", "_", "id">>
order_id == <<"order", "_", "id">>
product_id == <<"product", "_", "id">>
seller_id == <<"seller", "_", "id">>
order_date == <<"order", "_", "date">>
payment_type == <<"payment", "_", "type">>
name == <<"name">>
city == <<"city">>
state == <<"state">>
amount == <<"amount">>
category == <<"category">>
price == <<"price">>

TableNames == {"customers", "orders", "products", "order_products", "sales"}

files_and_tables == << <<"customers.csv", "customers">>,
                       <<"orders.csv", "orders">>,
                       <<"products.csv", "products">>,
                       <<"order_products.csv", "order_products">>,
                       <<"sales.csv", "sales">> >>

Paths == {files_and_tables[k][1] : k \in 1..Len(files_and_tables)}

(* ------------------------------ tables -------------------------------- *)
Absent == [exists |-> FALSE, origin |-> "none", cols |-> <<>>, types |-> <<>>,
           rows |-> <<>>, pk |-> <<>>, fks |-> {}]

DDLTable(cols, types, pk, fks) ==
    [exists |-> TRUE, origin |-> "ddl", cols |-> cols, types |-> types,
     rows |-> <<>>, pk |-> pk, fks |-> fks]

DDL(t) ==
    CASE t = "customers" ->
           DDLTable(<<customer_id, name, city, state>>,
                    <<"INTEGER", "TEXT", "TEXT", "TEXT">>, customer_id, {})
      [] t = "orders" ->
           DDLTable(<<order_id, customer_id, order_date, amount, payment_type>>,
                    <<"INTEGER", "INTEGER", "TEXT", "REAL", "TEXT">>, order_id,
                    {<<customer_id, "customers", customer_id>>})
      [] t = "products" ->
           DDLTable(<<product_id, category, price>>,
                    <<"INTEGER", "TEXT", "REAL">>, product_id, {})
      [] t = "order_products" ->
           DDLTable(<<order_id, product_id>>, <<"INTEGER", "INTEGER">>, <<>>,
                    {<<order_id, "orders", order_id>>,
                     <<product_id, "products", product_id>>})
      [] t = "sales" ->
           DDLTable(<<seller_id, amount>>, <<"INTEGER", "REAL">>, <<>>, {})

CreateIfNotExistsDrop(db, t) == DDL(t)

CreateIfNotExists(db, t) == IF db[t].exists THEN db[t] ELSE DDL(t)

create_tables(db) == [t \in TableNames |-> CreateIfNotExists(db, t)]

(* ------------------------------ files --------------------------------- *)
(* written[c] is how the cells of column c are written: "int" (digits), "float"
   (with a decimal point) or "text"; an empty cell is read as NaN *)
Missing == [kind |-> "missing", header |-> <<>>, written |-> <<>>, rows |-> <<>>]

Malformed == [kind |-> "malformed", header |-> <<>>, written |-> <<>>, rows |-> <<>>]

CsvFile(header, written, rows) ==
    [kind |-> "ok", header |-> header, written |-> written, rows |-> rows]

Raised == [ok |-> FALSE, columns |-> <<>>, dtypes |-> <<>>, rows |-> <<>>]

Digit(n) == CASE n = 1 -> "1" [] n = 2 -> "2" [] n = 3 -> "3" [] OTHER -> "n"

(* pandas names the k-th repeat of a header name "name.k" *)
MangleDupes(header) ==
    [k \in 1..Len(header) |->
        LET before == Cardinality({j \in 1..(k - 1) : header[j] = header[k]})
        IN IF before = 0 THEN header[k]
           ELSE header[k] \o <<".", Digit(before)>>]

InferDtype(f, c) ==
    IF f.written[c] = "text" THEN "object"
    ELSE IF f.written[c] = "float" \/ \E r \in 1..Len(f.rows) : f.rows[r][c] = NaN
    THEN "float64" ELSE "int64"

read_csv(f) ==
    IF f.kind # "ok" THEN Raised
    ELSE [ok |-> TRUE,
          columns |-> MangleDupes(f.header),
          dtypes |-> [c \in 1..Len(f.header) |-> InferDtype(f, c)],
          rows |-> f.rows]

SqlType(dtype) ==
    CASE dtype = "int64" -> "INTEGER" [] dtype = "float64" -> "REAL" [] OTHER -> "TEXT"

HasDuplicates(s) == \E a, b \in 1..Len(s) : a # b /\ s[a] = s[b]

NullOf(cell) == IF cell = NaN THEN NULL ELSE cell

InsertRows(df) == [r \in 1..Len(df.rows) |->
                      [c \in 1..Len(df.rows[r]) |-> NullOf(df.rows[r][c])]]

to_sql_append(df, t, db) ==
    IF HasDuplicates(df.columns) THEN [ok |-> FALSE, db |-> db]
    ELSE [ok |-> TRUE,
          db |-> [db EXCEPT ![t] =
                    [exists |-> TRUE, origin |-> "to_sql", cols |-> df.columns,
                     types |-> [c \in 1..Len(df.dtypes) |-> SqlType(df.dtypes[c])],
                     rows |-> db[t].rows \o InsertRows(df), pk |-> <<>>, fks |-> {}]]]

(* DataFrame.to_sql(if_exists='replace', index=False) *)
to_sql(df, t, db) ==
    IF HasDuplicates(df.columns) THEN [ok |-> FALSE, db |-> db]
    ELSE [ok |-> TRUE,
          db |-> [db EXCEPT ![t] =
                    [exists |-> TRUE, origin |-> "to_sql", cols |-> df.columns,
                     types |-> [c \in 1..Len(df.dtypes) |-> SqlType(df.dtypes[c])],
                     rows |-> InsertRows(df), pk |-> <<>>, fks |-> {}]]]

load_csv_to_table_caught(file, t, db) ==
    LET df == read_csv(file)
    IN IF ~df.ok THEN [ok |-> TRUE, db |-> db] ELSE to_sql(df, t, db)

load_csv_to_table(file, t, db) ==
    LET df == read_csv(file)
    IN IF ~df.ok THEN [ok |-> FALSE, db |-> db] ELSE to_sql(df, t, db)

Replace(s, a, b) == [k \in 1..Len(s) |-> IF s[k] = a THEN b ELSE s[k]]

CleanName(col) == Replace(Replace(Replace(col, " ", "_"), "-", "_"), ".", "_")

NoneOf(cell) == IF cell = NaN THEN NULL ELSE cell

process_csv(file, t, db) ==
    LET df == read_csv(file)
    IN IF ~df.ok THEN [ok |-> FALSE, db |-> db]
       ELSE LET df1 == [df EXCEPT !.rows =
                           [r \in 1..Len(df.rows) |->
                               [c \in 1..Len(df.rows[r]) |-> NoneOf(df.rows[r][c])]]]
                df2 == [df1 EXCEPT !.columns =
                           [c \in 1..Len(df1.columns) |-> CleanName(df1.columns[c])]]
            IN to_sql(df2, t, db)

(* ------------------------------ queries ------------------------------- *)
HasCol(tbl, c) == \E k \in 1..Len(tbl.cols) : tbl.cols[k] = c

ColIdx(tbl, c) == CHOOSE k \in 1..Len(tbl.cols) : tbl.cols[k] = c

Cell(tbl, r, c) == tbl.rows[r][ColIdx(tbl, c)]

(* the columns each statement of a tier names, in the order the tier runs them *)
Needs(tier) ==
    CASE tier = "basic_queries" ->
           << {<<"customers", city>>},
              {<<"orders", order_date>>},
              {<<"orders", order_id>>, <<"orders", amount>>,
               <<"order_products", order_id>>, <<"order_products", product_id>>,
               <<"products", product_id>>, <<"products", category>>},
              {<<"orders", payment_type>>},
              {<<"customers", state>>} >>
      [] tier = "intermediate_queries" ->
           << {<<"orders", order_date>>},
              {<<"orders", order_id>>, <<"orders", customer_id>>,
               <<"order_products", order_id>>, <<"order_products", product_id>>,
               <<"customers", customer_id>>, <<"customers", city>>},
              {<<"orders", order_id>>, <<"orders", amount>>,
               <<"order_products", order_id>>, <<"order_products", product_id>>,
               <<"products", product_id>>, <<"products", category>>},
              {<<"products", product_id>>, <<"products", price>>,
               <<"order_products", order_id>>, <<"order_products", product_id>>},
              {<<"sales", seller_id>>, <<"sales", amount>>} >>
      [] tier = "advanced_queries" ->
           << {<<"orders", customer_id>>, <<"orders", order_date>>, <<"orders", amount>>},
              {<<"orders", order_date>>, <<"orders", amount>>},
              {<<"orders", order_date>>, <<"orders", amount>>},
              {<<"orders", customer_id>>, <<"orders", order_date>>},
              {<<"orders", customer_id>>, <<"orders", order_date>>, <<"orders", amount>>} >>

(* a statement naming a table or column the store lacks raises *)
Raises(db, needs) ==
    \E n \in needs : ~db[n[1]].exists \/ ~HasCol(db[n[1]], n[2])

(* the first statement of the tier that raises, 0 when none does *)
FirstRaise(db, tier) ==
    LET bad == {q \in 1..Len(Needs(tier)) : Raises(db, Needs(tier)[q])}
    IN IF bad = {} THEN 0 ELSE CHOOSE q \in bad : \A r \in bad : q <= r

(* statement q of the tier ran and printed its result *)
Printed(db, tier, q) == FirstRaise(db, tier) = 0 \/ q < FirstRaise(db, tier)

(* SUM(): NULL inputs are skipped, no input gives NULL *)
SqlSum(cells) ==
    LET nn == SelectSeq(cells, LAMBDA x : x # NULL)
    IN IF nn = <<>> THEN NULL ELSE SumSeq(nn)

Abs(x) == IF x < 0 THEN -x ELSE x

TruncDiv(a, b) == LET q == Abs(a) \div Abs(b)
                  IN IF (a < 0) # (b < 0) THEN -q ELSE q

NullQ == [num |-> 0, den |-> 0]

(* a / b: NULL for a NULL operand or a zero divisor; integer division for two
   INTEGER operands *)
SqlDiv(a, b, real) ==
    IF a = NULL \/ b = NULL \/ b = 0 THEN NullQ
    ELSE IF real THEN [num |-> a, den |-> b]
    ELSE [num |-> TruncDiv(a, b), den |-> 1]

QTimes(q, n) == IF q.den = 0 THEN NullQ ELSE [num |-> q.num * n, den |-> q.den]

(* orders o JOIN order_products op ON o.order_id = op.order_id
            JOIN products p ON op.product_id = p.product_id *)
JoinRows(db) ==
    {j \in (1..Len(db["orders"].rows)) \X (1..Len(db["order_products"].rows))
             \X (1..Len(db["products"].rows)) :
        /\ Cell(db["orders"], j[1], order_id) # NULL
        /\ Cell(db["orders"], j[1], order_id) = Cell(db["order_products"], j[2], order_id)
        /\ Cell(db["order_products"], j[2], product_id) # NULL
        /\ Cell(db["order_products"], j[2], product_id)
             = Cell(db["products"], j[3], product_id)}

JoinCategory(db, j) == Cell(db["products"], j[3], category)

JoinAmounts(db, J) ==
    LET js == SetToSeq(J)
    IN [k \in 1..Len(js) |-> Cell(db["orders"], js[k][1], amount)]

SumDistinct(db, J) ==
    SqlSum(SetToSeq({Cell(db["orders"], j[1], amount) : j \in J}))

CategoryTotal(db, J) == SqlSum(JoinAmounts(db, J))

(* basic query 3: SELECT p.category, SUM(o.amount) ... GROUP BY p.category *)
sales_per_category(db) ==
    LET J == JoinRows(db)
    IN {[category |-> g,
         total_sales |-> CategoryTotal(db, {j \in J : JoinCategory(db, j) = g})] :
          g \in {JoinCategory(db, j) : j \in J}}

AmountIsReal(db) == db["orders"].types[ColIdx(db["orders"], amount)] = "REAL"

AllAmounts(db) ==
    [r \in 1..Len(db["orders"].rows) |-> Cell(db["orders"], r, amount)]

(* intermediate query 3: (category_total / (SELECT total FROM total_revenue)) * 100 *)
percentage_revenue_per_category(db) ==
    LET total == SqlSum(AllAmounts(db))
        J == JoinRows(db)
    IN {[category |-> g,
         percentage_revenue |->
            QTimes(SqlDiv(SqlSum(JoinAmounts(db, {j \in J : JoinCategory(db, j) = g})),
                          total, AmountIsReal(db)), 100)] :
          g \in {JoinCategory(db, j) : j \in J}}

IsDate(d) == /\ d # NULL
             /\ d \div 10000 \in 1..9999
             /\ (d \div 100) % 100 \in 1..12
             /\ d % 100 \in 1..31

(* strftime("%Y", order_date): NULL for a NULL or unparseable date *)
StrftimeY(d) == IF IsDate(d) THEN d \div 10000 ELSE NULL

OrderYear(db, r) == StrftimeY(Cell(db["orders"], r, order_date))

OrderRowsWhere(db, P(_)) == {r \in 1..Len(db["orders"].rows) : P(r)}

AmountsOf(db, R) ==
    LET rs == SetToSeq(R)
    IN [k \in 1..Len(rs) |-> Cell(db["orders"], rs[k], amount)]

(* yearly_sales: GROUP BY year; NULL is a group of its own *)
yearly_sales(db) ==
    {[year |-> y,
      total_sales |-> SqlSum(AmountsOf(db, OrderRowsWhere(db, LAMBDA r : OrderYear(db, r) = y)))] :
        y \in {OrderYear(db, r) : r \in 1..Len(db["orders"].rows)}}

RECURSIVE SortByYear(_)
SortByYear(S) ==
    IF S = {} THEN <<>>
    ELSE LET m == CHOOSE x \in S : \A y \in S : x.year <= y.year
         IN <<m>> \o SortByYear(S \ {m})

Minus(a, b) == IF a = NULL \/ b = NULL THEN NULL ELSE a - b

Times(a, n) == IF a = NULL THEN NULL ELSE a * n

(* LAG(total_sales) OVER (ORDER BY year): NULL on the first row; NULL sorts first *)
Lag(ys, k) == IF k = 1 THEN NULL ELSE ys[k - 1].total_sales

(* advanced query 3 *)
yearly_growth_rate(db) ==
    LET ys == SortByYear(yearly_sales(db))
    IN [k \in 1..Len(ys) |->
          [year |-> ys[k].year,
           total_sales |-> ys[k].total_sales,
           previous_year_sales |-> Lag(ys, k),
           growth_rate |-> SqlDiv(Times(Minus(ys[k].total_sales, Lag(ys, k)), 100),
                                  Lag(ys, k), TRUE)]]

(* yearly_spending: GROUP BY year, customer_id *)
yearly_spending(db) ==
    {[year |-> g[1], customer_id |-> g[2],
      total_spent |-> SqlSum(AmountsOf(db, OrderRowsWhere(db,
                        LAMBDA r : /\ OrderYear(db, r) = g[1]
                                   /\ Cell(db["orders"], r, customer_id) = g[2])))] :
        g \in {<<OrderYear(db, r), Cell(db["orders"], r, customer_id)>> :
                 r \in 1..Len(db["orders"].rows)}}

Min(a, b) == IF a < b THEN a ELSE b

TopOfPartitionAscending(P, S) ==
    /\ S \subseteq P
    /\ Cardinality(S) = Min(Cardinality(P), TopN)
    /\ \A s \in S, p \in P \ S : s.total_spent <= p.total_spent

(* the rows of one year with ROW_NUMBER() <= 3 under ORDER BY total_spent DESC
   (NULL last); rows of equal total_spent may be numbered in either order *)
TopOfPartition(P, S) ==
    /\ S \subseteq P
    /\ Cardinality(S) = Min(Cardinality(P), TopN)
    /\ \A s \in S, p \in P \ S : s.total_spent >= p.total_spent

(* advanced query 5: every result the statement may return *)
top_customers_per_year(db) ==
    LET G == yearly_spending(db)
    IN {R \in SUBSET G :
          \A y \in {g.year : g \in G} :
              TopOfPartition({g \in G : g.year = y}, {g \in R : g.year = y})}

(* ------------------------------ script 1 ------------------------------ *)
MainStepsCloseEarly ==
    <<"connect", "create_tables", "load", "basic_queries", "intermediate_queries",
      "close", "advanced_queries", "done">>

(* the body of main, in order *)
MainSteps ==
    <<"connect", "create_tables", "load", "basic_queries", "intermediate_queries",
      "advanced_queries", "close", "done">>

After(step) ==
    MainSteps[1 + CHOOSE k \in 1..Len(MainSteps) : MainSteps[k] = step]

Entry(op, arg, ok) == [op |-> op, arg |-> arg, ok |-> ok, conn |-> conn]

NoOutput == [printed |-> {}, sales_per_category |-> {},
             percentage_revenue_per_category |-> {},
             yearly_growth_rate |-> <<>>, top_customers_per_year |-> {}]

EmptyDb == [t \in TableNames |-> Absent]

NoAttempts == [sqlite |-> 0, mysql |-> 0]

NoSnapshot == [sqlite |-> Absent, mysql |-> Absent, fresh |-> TRUE]

Connect ==
    /\ pc = "connect"
    /\ conn' = "open"
    /\ opens' = opens + 1
    /\ log' = Append(log, [op |-> "connect", arg |-> "database.db", ok |-> TRUE,
                           conn |-> "open"])
    /\ pc' = After(pc)
    /\ UNCHANGED <<i, run, fs, store, mysql, out, attempts, snapshot>>

CreateTables ==
    /\ pc = "create_tables"
    /\ store' = create_tables(store)
    /\ log' = Append(log, Entry("create_tables", "", TRUE))
    /\ pc' = After(pc)
    /\ i' = 1
    /\ UNCHANGED <<run, conn, opens, fs, mysql, out, attempts, snapshot>>

LoadStep ==
    /\ pc = "load"
    /\ LET path == files_and_tables[i][1]
           t == files_and_tables[i][2]
           r == load_csv_to_table(fs[path], t, store)
       IN /\ store' = r.db
          /\ log' = Append(log, Entry("load", t, r.ok))
          /\ IF ~r.ok THEN pc' = "failed" /\ i' = i
             ELSE IF i < Len(files_and_tables) THEN pc' = pc /\ i' = i + 1
             ELSE pc' = After(pc) /\ i' = 0
    /\ UNCHANGED <<run, conn, opens, fs, mysql, out, attempts, snapshot>>

BasicQueries ==
    /\ pc = "basic_queries"
    /\ LET ok == FirstRaise(store, pc) = 0
       IN /\ log' = Append(log, Entry(pc, "", ok))
          /\ pc' = IF ok THEN After(pc) ELSE "failed"
          /\ out' = IF Printed(store, pc, 3)
                    THEN [out EXCEPT !.printed = @ \cup {"sales_per_category"},
                                     !.sales_per_category = sales_per_category(store)]
                    ELSE out
    /\ UNCHANGED <<i, run, conn, opens, fs, store, mysql, attempts, snapshot>>

IntermediateQueries ==
    /\ pc = "intermediate_queries"
    /\ LET ok == FirstRaise(store, pc) = 0
       IN /\ log' = Append(log, Entry(pc, "", ok))
          /\ pc' = IF ok THEN After(pc) ELSE "failed"
          /\ out' = IF Printed(store, pc, 3)
                    THEN [out EXCEPT !.printed = @ \cup {"percentage_revenue_per_category"},
                                     !.percentage_revenue_per_category =
                                         percentage_revenue_per_category(store)]
                    ELSE out
    /\ UNCHANGED <<i, run, conn, opens, fs, store, mysql, attempts, snapshot>>

AdvancedQueries ==
    /\ pc = "advanced_queries"
    /\ LET ok == FirstRaise(store, pc) = 0
       IN /\ log' = Append(log, Entry(pc, "", ok))
          /\ pc' = IF ok THEN After(pc) ELSE "failed"
          /\ IF ok
             THEN \E R \in top_customers_per_year(store) :
                    out' = [out EXCEPT !.printed = @ \cup {"yearly_growth_rate",
                                                           "top_customers_per_year"},
                                       !.yearly_growth_rate = yearly_growth_rate(store),
                                       !.top_customers_per_year = R]
             ELSE out' = out
    /\ UNCHANGED <<i, run, conn, opens, fs, store, mysql, attempts, snapshot>>

Close ==
    /\ pc = "close"
    /\ conn' = "closed"
    /\ log' = Append(log, Entry("close", "", TRUE))
    /\ pc' = After(pc)
    /\ UNCHANGED <<i, run, opens, fs, store, mysql, out, attempts, snapshot>>

(* the script is started again; database.db is as the last run left it *)
Rerun ==
    /\ pc \in {"done", "failed"}
    /\ run < MaxRuns
    /\ run' = run + 1
    /\ pc' = MainSteps[1]
    /\ i' = 0
    /\ conn' = "none"
    /\ opens' = 0
    /\ log' = <<>>
    /\ out' = NoOutput
    /\ UNCHANGED <<fs, store, mysql, attempts, snapshot>>

MainRow(t, k) ==
    CASE t = "customers" -> <<k, k, k, k>>
      [] t = "orders" -> <<k, k, 20170315, 10 * k, k>>
      [] t = "products" -> <<k, k, 5 * k>>
      [] t = "order_products" -> <<k, k>>
      [] t = "sales" -> <<k, 10 * k>>

Written(type) ==
    CASE type = "INTEGER" -> "int" [] type = "REAL" -> "float" [] OTHER -> "text"

MainFile(t, header, n) ==
    CsvFile(header, [c \in 1..Len(header) |-> Written(DDL(t).types[c])],
            [k \in 1..n |-> MainRow(t, k)])

MainFiles(t) ==
    {Missing, Malformed}
      \cup {MainFile(t, DDL(t).cols, n) : n \in 1..MaxId}
      \cup (IF t = "sales"
            THEN {MainFile(t, << <<"seller", " ", "id">>, amount >>, 1)}
            ELSE {})

Init ==
    /\ pc = MainSteps[1]
    /\ i = 0
    /\ run = 1
    /\ conn = "none"
    /\ opens = 0
    /\ log = <<>>
    /\ \E a \in MainFiles("customers"), b \in MainFiles("orders"),
          c \in MainFiles("products"), d \in MainFiles("order_products"),
          e \in MainFiles("sales") :
         fs = [p \in Paths |->
                 CASE p = "customers.csv" -> a [] p = "orders.csv" -> b
                   [] p = "products.csv" -> c [] p = "order_products.csv" -> d
                   [] p = "sales.csv" -> e]
    /\ store = EmptyDb
    /\ mysql = EmptyDb
    /\ out = NoOutput
    /\ attempts = NoAttempts
    /\ snapshot = NoSnapshot

Step == \/ Connect
        \/ CreateTables
        \/ LoadStep
        \/ BasicQueries
        \/ IntermediateQueries
        \/ AdvancedQueries
        \/ Close

Next == Step \/ Rerun

Spec == Init /\ [][Next]_vars

(* a started run is not suspended: main is one sequential thread *)
FairSpec == Spec /\ WF_vars(Step)

(* ------------------------- the loaders, applied ------------------------ *)
(* Both scripts name sales.csv and the table sales.  Either loader is run,
   any number of times, on one sales.csv of any content, load_csv_to_table
   into database.db and process_csv into the MySQL database. *)
LoaderNames == {amount, seller_id, <<"seller", " ", "id">>, <<"seller", "-", "id">>,
                <<"seller", ".", "id">>}

LoaderCells == {NaN, 1}

LoaderFiles(ncols, nrows) ==
    {Missing, Malformed}
      \cup UNION {{CsvFile(h, [c \in 1..Len(h) |-> "int"], rs) :
                     rs \in SeqsUpTo([1..Len(h) -> LoaderCells], nrows)} :
                  h \in SeqsUpTo(LoaderNames, ncols) \ {<<>>}}

PriorSales == [exists |-> TRUE, origin |-> "to_sql", cols |-> <<seller_id, amount>>,
               types |-> <<"INTEGER", "REAL">>, rows |-> << <<1, 1>> >>,
               pk |-> <<>>, fks |-> {}]

InitLoader ==
    /\ pc = "loader"
    /\ i = 0
    /\ run = 1
    /\ conn = "open"
    /\ opens = 1
    /\ log = <<>>
    /\ \E f \in LoaderFiles(MaxCols, MaxRows) :
         fs = [p \in Paths |-> IF p = "sales.csv" THEN f ELSE Missing]
    /\ \E prior \in BOOLEAN :
         /\ store = IF prior THEN create_tables(EmptyDb) ELSE EmptyDb
         /\ mysql = IF prior THEN [EmptyDb EXCEPT !["sales"] = PriorSales] ELSE EmptyDb
    /\ out = NoOutput
    /\ attempts = NoAttempts
    /\ snapshot = [NoSnapshot EXCEPT !.fresh = ~mysql["sales"].exists]

Twice(n) == IF n = 0 THEN 1 ELSE 2

CallLoadCsvToTable ==
    /\ pc = "loader"
    /\ LET r == load_csv_to_table(fs["sales.csv"], "sales", store)
       IN /\ store' = r.db
          /\ snapshot' = IF attempts.sqlite = 0
                         THEN [snapshot EXCEPT !.sqlite = r.db["sales"]]
                         ELSE snapshot
    /\ attempts' = [attempts EXCEPT !.sqlite = Twice(@)]
    /\ UNCHANGED <<pc, i, run, conn, opens, log, fs, mysql, out>>

CallProcessCsv ==
    /\ pc = "loader"
    /\ LET r == process_csv(fs["sales.csv"], "sales", mysql)
       IN /\ mysql' = r.db
          /\ snapshot' = IF attempts.mysql = 0
                         THEN [snapshot EXCEPT !.mysql = r.db["sales"]]
                         ELSE snapshot
    /\ attempts' = [attempts EXCEPT !.mysql = Twice(@)]
    /\ UNCHANGED <<pc, i, run, conn, opens, log, fs, store, out>>

NextLoader == CallLoadCsvToTable \/ CallProcessCsv

SpecLoader == InitLoader /\ [][NextLoader]_vars

(* ------------------------ the query tiers, applied --------------------- *)
(* The store is the one the load loop leaves for the csv files drawn here.
   No statement of the tiers depends on the order of a table's rows, so one
   file stands for all the files with the same rows in another order. *)
RECURSIVE SortedSeqs(_, _, _)
SortedSeqs(L, n, lo) ==
    IF n = 0 THEN {<<>>}
    ELSE {<<>>} \cup UNION {{<<L[k]>> \o s : s \in SortedSeqs(L, n - 1, k)} :
                              k \in lo..Len(L)}

RowLists(S, n) == SortedSeqs(SetToSeq(S), n, 1)

QueryIds == {1, 2}
Amounts == {1, 2}
Categories == {1, 2}
OrderDates == {20170315, 20180602}
UnparseableDates == {20171301}
CustomerIds == 1..(TopN + 1)

RevenueOrders == {<<o, 1, 20170315, a, 1>> : o \in QueryIds, a \in Amounts}

RevenueProducts == {<<p, c, 5>> : p \in QueryIds, c \in Categories}

RevenueLinks == {<<o, p>> : o \in QueryIds, p \in QueryIds}

(* one order stands for those whose date does not parse: such orders fall in
   the NULL year, which the rows of the other years do not depend on *)
YearlyOrders == {<<1, c, d, a, 1>> : c \in CustomerIds, d \in OrderDates, a \in Amounts}
                  \cup {<<1, 1, d, 1, 1>> : d \in UnparseableDates}

QueryFile(t, reals, rows) ==
    CsvFile(DDL(t).cols,
            [c \in 1..Len(DDL(t).cols) |->
                IF DDL(t).types[c] = "REAL" THEN reals ELSE Written(DDL(t).types[c])],
            rows)

RevenueFiles(reals, orders, products, links) ==
    [p \in Paths |->
        CASE p = "customers.csv" -> MainFile("customers", DDL("customers").cols, 1)
          [] p = "orders.csv" -> QueryFile("orders", reals, orders)
          [] p = "products.csv" -> QueryFile("products", "float", products)
          [] p = "order_products.csv" -> QueryFile("order_products", "int", links)
          [] p = "sales.csv" -> MainFile("sales", DDL("sales").cols, 1)]

YearlyFiles(orders) ==
    [p \in Paths |->
        CASE p = "customers.csv" -> MainFile("customers", DDL("customers").cols, TopN + 1)
          [] p = "orders.csv" -> QueryFile("orders", "float", orders)
          [] p = "products.csv" -> MainFile("products", DDL("products").cols, 1)
          [] p = "order_products.csv" ->
               MainFile("order_products", DDL("order_products").cols, 1)
          [] p = "sales.csv" -> MainFile("sales", DDL("sales").cols, 1)]

RECURSIVE LoadAll(_, _, _)
LoadAll(files, db, k) ==
    IF k > Len(files_and_tables) THEN db
    ELSE LoadAll(files,
                 load_csv_to_table(files[files_and_tables[k][1]],
                                   files_and_tables[k][2], db).db,
                 k + 1)

LoadedLog ==
    << [op |-> "connect", arg |-> "database.db", ok |-> TRUE, conn |-> "open"],
       [op |-> "create_tables", arg |-> "", ok |-> TRUE, conn |-> "open"] >>
      \o [k \in 1..Len(files_and_tables) |->
            [op |-> "load", arg |-> files_and_tables[k][2], ok |-> TRUE, conn |-> "open"]]

InitQuery(files) ==
    /\ pc = After("load")
    /\ i = 0
    /\ run = 1
    /\ conn = "open"
    /\ opens = 1
    /\ log = LoadedLog
    /\ fs = files
    /\ store = LoadAll(files, create_tables(EmptyDb), 1)
    /\ mysql = EmptyDb
    /\ out = NoOutput
    /\ attempts = NoAttempts
    /\ snapshot = NoSnapshot

InitRevenue ==
    \E reals \in {"int", "float"}, orders \in RowLists(RevenueOrders, MaxLinks),
       products \in RowLists(RevenueProducts, MaxLinks),
       links \in RowLists(RevenueLinks, MaxLinks) :
        InitQuery(RevenueFiles(reals, orders, products, links))

InitYearly ==
    \E orders \in RowLists(YearlyOrders, MaxOrders) : InitQuery(YearlyFiles(orders))

NextQuery == BasicQueries \/ IntermediateQueries \/ AdvancedQueries \/ Close

(* orders, products and order_products vary: the join of basic query 3 and
   intermediate query 3 *)
SpecRevenue == InitRevenue /\ [][NextQuery]_vars

(* the customer, date and amount of the orders vary: advanced queries 3 and 5 *)
SpecYearly == InitYearly /\ [][NextQuery]_vars

(* ------------------------------- claims -------------------------------- *)
SalesTable(db) == IF db = "sqlite" THEN store["sales"] ELSE mysql["sales"]

(* C1: a loader run again on the same file and table leaves the table as the
   first run left it, whatever the file holds and whatever the table held. *)
C1_LoaderIdempotent ==
    \A db \in {"sqlite", "mysql"} :
        attempts[db] >= 1 => SalesTable(db) = snapshot[db]

C1_Witness ==
    /\ attempts.sqlite = 2
    /\ attempts.mysql = 2
    /\ ~snapshot.fresh
    /\ store["sales"].origin = "to_sql"
    /\ mysql["sales"].cols # PriorSales.cols
    /\ Len(store["sales"].rows) >= 1
    /\ Len(mysql["sales"].rows) = Len(store["sales"].rows)

LoadsDone == Len(log) >= 2 + Len(files_and_tables) /\ pc # "failed"

ColumnValues(tbl, c) == {Cell(tbl, r, c) : r \in 1..Len(tbl.rows)}

(* C2: once the schema is created and the five files are loaded, every orders
   row names a customer of customers and every order_products row names an
   order of orders and a product of products. *)
C2_ReferentialIntegrity ==
    LoadsDone =>
        /\ ColumnValues(store["orders"], customer_id)
             \subseteq ColumnValues(store["customers"], customer_id)
        /\ ColumnValues(store["order_products"], order_id)
             \subseteq ColumnValues(store["orders"], order_id)
        /\ ColumnValues(store["order_products"], product_id)
             \subseteq ColumnValues(store["products"], product_id)

PercentNums ==
    LET rs == SetToSeq(out.percentage_revenue_per_category)
    IN [k \in 1..Len(rs) |-> rs[k].percentage_revenue.num]

(* C3: the percentage_revenue values of the categories returned by intermediate
   query 3 sum to 100. *)
C3_PercentagesSumTo100 ==
    ("percentage_revenue_per_category" \in out.printed
       /\ out.percentage_revenue_per_category # {})
    => \E d \in {r.percentage_revenue.den : r \in out.percentage_revenue_per_category} :
          /\ d # 0
          /\ \A r \in out.percentage_revenue_per_category : r.percentage_revenue.den = d
          /\ SumSeq(PercentNums) = 100 * d

CategoryTotals ==
    LET rs == SetToSeq(out.sales_per_category)
    IN [k \in 1..Len(rs) |-> rs[k].total_sales]

(* C4: the total_sales of the categories returned by basic query 3 sum to the
   sum of the order amounts over the rows of the join of orders, order_products
   and products; no joined row gives no category. *)
C4_CategoryTotalsSumToJoin ==
    "sales_per_category" \in out.printed =>
        IF JoinRows(store) = {} THEN out.sales_per_category = {}
        ELSE /\ out.sales_per_category # {}
             /\ SumSeq(CategoryTotals) = SumSeq(JoinAmounts(store, JoinRows(store)))

C4_Witness ==
    /\ "sales_per_category" \in out.printed
    /\ Cardinality(out.sales_per_category) = 2
    /\ \E j, k \in JoinRows(store) :
          j # k /\ j[1] = k[1] /\ JoinCategory(store, j) # JoinCategory(store, k)

RealYears == {OrderYear(store, r) : r \in 1..Len(store["orders"].rows)} \ {NULL}

(* C5: in the result of advanced query 3, the row of a year with no earlier
   year in orders has a NULL previous_year_sales and a NULL growth_rate. *)
C5_FirstYearHasNoPrevious ==
    "yearly_growth_rate" \in out.printed =>
        \A k \in 1..Len(out.yearly_growth_rate) :
            LET row == out.yearly_growth_rate[k]
            IN (row.year # NULL /\ \A y \in RealYears : row.year <= y)
                 => row.previous_year_sales = NULL /\ row.growth_rate = NullQ

CustomersOf(y) ==
    {Cell(store["orders"], r, customer_id) :
        r \in {q \in 1..Len(store["orders"].rows) : OrderYear(store, q) = y}}

Spent(c, y) ==
    SumSeq(AmountsOf(store, {r \in 1..Len(store["orders"].rows) :
                               /\ OrderYear(store, r) = y
                               /\ Cell(store["orders"], r, customer_id) = c}))

(* C6: for every year in which k distinct customers placed orders, advanced
   query 5 returns min(k, 3) rows of that year, each for another customer who
   ordered that year with what that customer spent, and no customer left out
   spent strictly more than a returned one. *)
C6_TopThreePerYear ==
    "top_customers_per_year" \in out.printed =>
        \A y \in RealYears :
            LET R == {r \in out.top_customers_per_year : r.year = y}
                returned == {r.customer_id : r \in R}
                k == Cardinality(CustomersOf(y))
            IN /\ Cardinality(R) = IF k < 3 THEN k ELSE 3
               /\ Cardinality(returned) = Cardinality(R)
               /\ returned \subseteq CustomersOf(y)
               /\ \A r \in R : r.total_spent = Spent(r.customer_id, y)
               /\ \A r \in R, c \in CustomersOf(y) \ returned :
                     Spent(c, y) <= r.total_spent

C6_Witness ==
    /\ "top_customers_per_year" \in out.printed
    /\ \E y \in RealYears :
          /\ Cardinality(CustomersOf(y)) = 4
          /\ \E c, d \in CustomersOf(y) : Spent(c, y) < Spent(d, y)
          /\ Cardinality({r \in out.top_customers_per_year : r.year = y}) = 3

NoSeparator(col) == \A k \in 1..Len(col) : col[k] \notin {" ", "-", "."}

(* C7: either loader, given a file of N rows and C columns and a fresh table,
   leaves a table of N rows and C columns none of whose column names holds a
   space, a dash or a dot. *)
C7_NormalizedColumns ==
    \A db \in {"sqlite", "mysql"} :
        (snapshot.fresh /\ attempts[db] >= 1 /\ fs["sales.csv"].kind = "ok")
        => /\ SalesTable(db).origin = "to_sql"
           /\ Len(SalesTable(db).rows) = Len(fs["sales.csv"].rows)
           /\ Len(SalesTable(db).cols) = Len(fs["sales.csv"].header)
           /\ \A c \in 1..Len(SalesTable(db).cols) : NoSeparator(SalesTable(db).cols[c])

(* C8: create_tables never fails, leaves every table that exists as it is, rows
   and schema, creates the others empty, and run again on its own result
   changes nothing. *)
C8_CreateTablesIdempotent ==
    [][pc = "create_tables" =>
         /\ pc' = "load"
         /\ \A t \in TableNames :
               /\ store'[t].exists
               /\ store'[t].rows = store[t].rows
               /\ store[t].exists => store'[t] = store[t]
         /\ create_tables(store') = store']_vars

C8_Witness ==
    /\ run = 2
    /\ pc = "load"
    /\ i = 1
    /\ store["customers"].origin = "to_sql"
    /\ Len(store["customers"].rows) >= 1
    /\ store["sales"].origin = "ddl"

ExpectedOps ==
    <<"connect", "create_tables", "load", "load", "load", "load", "load",
      "basic_queries", "intermediate_queries", "advanced_queries", "close">>

ExpectedArgs ==
    <<"database.db", "", "customers", "orders", "products", "order_products", "sales",
      "", "", "", "">>

C9_Serial ==
    /\ opens <= 1
    /\ conn # "none" => opens = 1
    /\ Len(log) <= Len(ExpectedOps)
    /\ \A k \in 1..Len(log) :
          /\ log[k].op = ExpectedOps[k]
          /\ log[k].arg = ExpectedArgs[k]
          /\ log[k].conn = "open"
    /\ conn = "closed" => pc = "done"
    /\ pc = "done" => conn = "closed" /\ Len(log) = Len(ExpectedOps)

(* C9: a run opens the connection once, performs schema creation, the five
   loads and the three query tiers in that order while it is open, and, no step
   failing, ends with the connection closed; nothing happens after the close. *)
C9_OpenedOnceUsedSeriallyClosed ==
    /\ []C9_Serial
    /\ (pc = "connect") ~> (pc = "failed" \/ (pc = "done" /\ conn = "closed"))

C9_Witness ==
    /\ pc = "done"
    /\ conn = "closed"
    /\ Len(log) = Len(ExpectedOps)
    /\ \A k \in 1..Len(log) : log[k].ok
    /\ run = 2

(* C10: a load of a file that cannot be read ends the run at that step: the
   tables loaded before it hold their files' rows, no later file is loaded, no
   query runs, and the connection is not closed. *)
C10_LoadFailureEndsRun ==
    /\ \A k \in 1..Len(log) : ~log[k].ok => k = Len(log) /\ pc = "failed" /\ conn = "open"
    /\ \A k \in 1..Len(files_and_tables) :
          (Len(log) >= 2 + k /\ fs[files_and_tables[k][1]].kind # "ok")
          => /\ ~log[2 + k].ok
             /\ Len(log) = 2 + k
             /\ out = NoOutput
             /\ \A j \in 1..(k - 1) :
                   /\ store[files_and_tables[j][2]].origin = "to_sql"
                   /\ store[files_and_tables[j][2]].rows = fs[files_and_tables[j][1]].rows
             /\ run = 1 => \A j \in k..Len(files_and_tables) :
                              store[files_and_tables[j][2]] = DDL(files_and_tables[j][2])

C10_Witness ==
    /\ pc = "failed"
    /\ run = 1
    /\ i = 3
    /\ fs["products.csv"].kind = "malformed"
    /\ store["orders"].origin = "to_sql"
    /\ Len(store["orders"].rows) = 2
    /\ store["products"].origin = "ddl"
    /\ conn = "open"

====
